---- MODULE Spec2Model ----
(***************************************************************************)
(* Hook provider / hook client attachment subsystem of                     *)
(* libs/ebpf_ext/ebpf_ext_hook_provider.c: one provider, its lock and its  *)
(* intrusive client list, the attach and detach handlers, the deferred     *)
(* detach-completion work item, the rundown guard of every client and the  *)
(* invocation path that uses them.                                         *)
(***************************************************************************)
EXTENDS Integers, Sequences, FiniteSets, TLC

\* ------------------------------------------------------------------ bounds
\* Client records (attach requests) the provider sees in a run.
NumClients == 3
\* Of these, the clients whose handlers may run concurrently with each other.
NumConcurrent == 2
\* Threads on the invocation path.
NumInvokers == 1

Clients == 1..NumClients
Invokers == 1..NumInvokers
ConcurrentClients == 1..NumConcurrent

\* ------------------------------------------------------- program constants
\* &provider_context->attached_clients_list, the list head.
ListHead == 0
\* A NULL pointer (memset(hook_client, 0, ...) leaves link.Flink NULL).
NULL == -1
\* The value of an output parameter the handler returned without writing.
Untouched == -2

Nodes == Clients \cup {ListHead}

\* The wildcard attach parameter handed to the matcher by the hook, and the
\* attach-parameter blobs clients register with.  <<>> is a NULL data pointer.
WildCard == <<0, 0>>
ParamSize == Len(WildCard)
Params == {WildCard, <<1, 0>>, <<1, 1>>}
ClientData == Params \cup {<<>>}

VARIABLES
    lock,          \* provider_context->lock: [w |-> held exclusive, r |-> shared holders]
    flink, blink,  \* LIST_ENTRY.Flink / .Blink of the head and of every client record
    record,        \* client record memory: "none" | "allocated" | "freed"
    client_data,   \* hook_client->client_data->data
    work_item,     \* hook_client->detach_work_item: "null" | "allocated" | "queued" | "freed"
    rundown,       \* hook_client->rundown: [count, active, rundown_occurred]
    apc,           \* position of the attach handler of each client
    status,        \* NTSTATUS returned by the attach handler
    binding,       \* *provider_binding_context as left by the attach handler
    dpc,           \* position of the detach handler of each client
    wpc,           \* position of the detach-completion work item of each client
    completions,   \* number of NmrProviderDetachClientComplete calls per client
    ipc,           \* position of each invocation thread
    iclient,       \* client pointer held by each invocation thread
    iheld,         \* TRUE when the thread holds a reference on the guard of iclient
    visited,       \* history: the clients get_next_attached_client has handed a
                   \* thread since it last started from NULL
    linkOrder,     \* history: clients in the order their attach linked them
    hist,          \* history of each client record: how its attach went, what was
                   \* freed how often, what its detach returned
    provider       \* the provider record and its registration

vars == <<lock, flink, blink, record, client_data, work_item, rundown, apc, status,
          binding, dpc, wpc, completions, ipc, iclient, iheld, visited, linkOrder,
          hist,
          provider>>

attachVars == <<apc, status, binding, client_data>>
detachVars == <<dpc, wpc, completions>>
invokeVars == <<ipc, iclient, iheld, visited>>
listVars == <<flink, blink, linkOrder>>

\* Mutant: only the first byte of the blobs is compared.
memcmp_first_byte(a, b, n) == a[1] = b[1]

\* ---------------------------------------------------------------- helpers
\* memcmp(a, b, n) == 0
memcmp0(a, b, n) == \A k \in 1..n : a[k] = b[k]

\* The client list as a sequence, walking Flink from the head.
RECURSIVE WalkFrom(_, _, _)
WalkFrom(f, link, fuel) ==
    IF link = ListHead \/ fuel = 0 THEN <<>>
    ELSE <<link>> \o WalkFrom(f, f[link], fuel - 1)

ListOf(f) == WalkFrom(f, f[ListHead], NumClients)
ClientList == ListOf(flink)

\* IsListEmpty(&provider_context->attached_clients_list)
IsListEmpty == flink[ListHead] = ListHead

SeqToSet(s) == {s[k] : k \in 1..Len(s)}

\* ------------------------------------------------------ rundown protection
\* Mutant: the guard starts out run down.
InitRundownDraining == [count |-> 0, active |-> TRUE, rundown_occurred |-> FALSE]

\* ExInitializeRundownProtection; rundown->rundown_occurred = FALSE
InitRundown == [count |-> 0, active |-> FALSE, rundown_occurred |-> FALSE]

\* ExAcquireRundownProtection: the result, and the guard it leaves.
AcquireResult(r) == ~r.active
\* Mutant: the reference is counted even when the guard is run down.
AcquireEffectAlways(r) == [r EXCEPT !.count = @ + 1]

AcquireEffect(r) == IF r.active THEN r ELSE [r EXCEPT !.count = @ + 1]

\* ExReleaseRundownProtection
ReleaseEffect(r) == [r EXCEPT !.count = @ - 1]

\* Mutant: the flag is set when the wait begins, not when it returns.
WaitBeginSetsFlag(r) == [r EXCEPT !.active = TRUE, !.rundown_occurred = TRUE]

\* ExWaitForRundownProtectionRelease marks the guard run down, then blocks
\* until the references taken before that are released.
WaitBeginEffect(r) == [r EXCEPT !.active = TRUE]
\* Mutant: the wait returns without looking at the count.
WaitReturnsAtOnce(r) == TRUE

WaitMayReturn(r) == r.count = 0

\* ----------------------------------------------------------------- matcher
\* Mutant: a NULL data pointer is read as a parameter that equals no request.
null_data_matches_nothing(link) ==
    IF client_data[link] = <<>> THEN <<2, 2>> ELSE client_data[link]

\* The parameter compared for the client at link: its data, or the wildcard
\* when its data pointer is NULL.
next_client_attach_parameter(link) ==
    IF client_data[link] = <<>> THEN WildCard ELSE client_data[link]

RECURSIVE MatchWalk(_, _, _)
MatchWalk(link, attach_parameter, fuel) ==
    IF link = ListHead \/ fuel = 0 THEN "EBPF_SUCCESS"
    ELSE IF memcmp0(WildCard, next_client_attach_parameter(link), ParamSize)
            \/ memcmp0(attach_parameter, next_client_attach_parameter(link), ParamSize)
         THEN "EBPF_ACCESS_DENIED"
         ELSE MatchWalk(flink[link], attach_parameter, fuel - 1)

\* Mutant: a wildcard request is not checked against a non-empty list.
check_without_wildcard_branch(attach_parameter) ==
    MatchWalk(flink[ListHead], attach_parameter, NumClients)

\* Mutant: the walk stops after the first client of the list.
check_only_first_client(attach_parameter) ==
    IF memcmp0(attach_parameter, WildCard, ParamSize)
    THEN IF ~IsListEmpty THEN "EBPF_ACCESS_DENIED" ELSE "EBPF_SUCCESS"
    ELSE MatchWalk(flink[ListHead], attach_parameter, 1)

check_attach_parameter(attach_parameter) ==
    IF memcmp0(attach_parameter, WildCard, ParamSize)
    THEN IF ~IsListEmpty THEN "EBPF_ACCESS_DENIED" ELSE "EBPF_SUCCESS"
    ELSE MatchWalk(flink[ListHead], attach_parameter, NumClients)

\* The hook's attach callback hands the matcher the client's registered
\* parameter, or the wildcard when the client registered none.
RequestedParameter(c) == IF client_data[c] = <<>> THEN WildCard ELSE client_data[c]

\* Mutant: InsertHeadList instead of InsertTailList.
InsertHeadFlink(c) ==
    [flink EXCEPT ![c] = flink[ListHead], ![ListHead] = c]

\* ------------------------------------------------------------ list surgery
\* InsertTailList(ListHead, Entry)
InsertTailFlink(c) ==
    [flink EXCEPT ![c] = ListHead, ![blink[ListHead]] = c]
InsertTailBlink(c) ==
    [blink EXCEPT ![c] = blink[ListHead], ![ListHead] = c]

\* Mutant: the entry is left reachable from its predecessor.
RemoveEntryKeepsFlink(c) == flink

\* RemoveEntryList(Entry): the neighbours are joined, Entry keeps its links.
RemoveEntryFlink(c) == [flink EXCEPT ![blink[c]] = flink[c]]
\* Mutant: the successor still points back at the entry.
RemoveEntryKeepsBlink(c) == blink

RemoveEntryBlink(c) == [blink EXCEPT ![flink[c]] = blink[c]]

\* --------------------------------------------------------------- the lock
LockFree == ~lock.w /\ lock.r = 0
AcquireShared == ~lock.w /\ lock' = [lock EXCEPT !.r = @ + 1]
ReleaseShared == lock' = [lock EXCEPT !.r = @ - 1]
\* Mutant: the exclusive acquisition does not wait for the shared holders.
AcquireExclusiveOverReaders == ~lock.w /\ lock' = [lock EXCEPT !.w = TRUE]

AcquireExclusive == LockFree /\ lock' = [lock EXCEPT !.w = TRUE]
ReleaseExclusive == lock' = [lock EXCEPT !.w = FALSE]

\* ---------------------------------------------------------------- history
\* What is remembered of a client record: how the first part of its attach
\* ended, what the matcher and the attach callback returned, how often
\* ExFreePool was called on the record and IoFreeWorkItem on its work item, how
\* often the detach callback was invoked for it, and what the detach handler
\* returned.
NoHistory ==
    [outcome |-> "none", matcher_result |-> "none", callback_result |-> "none",
     record_frees |-> 0, work_item_frees |-> 0, detach_callbacks |-> 0,
     detach_status |-> "none"]

\* ------------------------------------------------------------ the provider
\* The provider record: its memory, its registration with the binding
\* mechanism (nmr_provider_handle), what NmrRegisterProvider returned, the
\* caller's *provider_context, the status ebpf_extension_hook_provider_register
\* returned, the number of ExFreePool and NmrDeregisterProvider calls on it, the
\* position of ebpf_extension_hook_provider_unregister, and how a call of the
\* detach handler with a NULL handle ended.
NoProvider ==
    [mem |-> "none", nmr |-> "null", nmr_status |-> "none", context_out |-> "untouched",
     status |-> "none", frees |-> 0, deregister_calls |-> 0, upc |-> "idle",
     null_detach |-> "none"]

\* The provider after a successful ebpf_extension_hook_provider_register.
RegisteredProvider ==
    [NoProvider EXCEPT !.mem = "allocated", !.nmr = "registered",
                       !.nmr_status = "STATUS_SUCCESS",
                       !.context_out = "provider", !.status = "STATUS_SUCCESS"]

\* The binding mechanism offers clients to a provider only while it is registered.
ProviderAcceptsClients == provider.nmr = "registered"

\* ------------------------------------------------------------------- Init
NoClients ==
    /\ lock = [w |-> FALSE, r |-> 0]
    /\ flink = [n \in Nodes |-> IF n = ListHead THEN ListHead ELSE NULL]
    /\ blink = [n \in Nodes |-> IF n = ListHead THEN ListHead ELSE NULL]
    /\ record = [c \in Clients |-> "none"]
    /\ client_data = [c \in Clients |-> <<>>]
    /\ work_item = [c \in Clients |-> "null"]
    /\ rundown = [c \in Clients |-> InitRundown]
    /\ apc = [c \in Clients |-> "idle"]
    /\ status = [c \in Clients |-> "none"]
    /\ binding = [c \in Clients |-> Untouched]
    /\ dpc = [c \in Clients |-> "idle"]
    /\ wpc = [c \in Clients |-> "none"]
    /\ completions = [c \in Clients |-> 0]
    /\ ipc = [i \in Invokers |-> "idle"]
    /\ iclient = [i \in Invokers |-> NULL]
    /\ iheld = [i \in Invokers |-> FALSE]
    /\ visited = [i \in Invokers |-> <<>>]
    /\ linkOrder = <<>>
    /\ hist = [c \in Clients |-> NoHistory]

\* A registered provider with no client.
Init == NoClients /\ provider = RegisteredProvider

\* Before ebpf_extension_hook_provider_register is called.
InitUnregistered == NoClients /\ provider = NoProvider

\* ---------------------------------------------------------- attach handler
\* The ways the first part of the attach handler can end.
AttachOutcomes == {"ok", "null_argument", "no_record", "null_dispatch", "no_work_item"}

\* Mutant: the failure of IoAllocateWorkItem is reported as a bad argument.
CleanupStatusWorkItemAsArgument(outcome) ==
    CASE outcome = "null_argument" -> "STATUS_INVALID_PARAMETER"
      [] outcome = "no_record" -> "STATUS_NO_MEMORY"
      [] outcome = "null_dispatch" -> "STATUS_INVALID_PARAMETER"
      [] outcome = "no_work_item" -> "STATUS_INVALID_PARAMETER"

\* _ebpf_extension_hook_client_cleanup on the failure exit.
CleanupStatus(outcome) ==
    CASE outcome = "null_argument" -> "STATUS_INVALID_PARAMETER"
      [] outcome = "no_record" -> "STATUS_NO_MEMORY"
      [] outcome = "null_dispatch" -> "STATUS_INVALID_PARAMETER"
      [] outcome = "no_work_item" -> "STATUS_INSUFFICIENT_RESOURCES"

\* Mutant: the failure exit returns without calling the cleanup.
RecordLeftAllocated(outcome) ==
    IF outcome \in {"null_dispatch", "no_work_item"} THEN "allocated" ELSE "none"

\* The record after the failure exit: _ebpf_extension_hook_client_cleanup frees
\* it when it had been allocated.
RecordAfterCleanup(outcome) ==
    IF outcome \in {"null_dispatch", "no_work_item"} THEN "freed" ELSE "none"

\* Argument checks, allocation of the record, and _ebpf_ext_attach_init_rundown:
\* everything the handler does before it calls the attach callback.  The
\* binding mechanism calls the handler only for a registered provider.
AttachEnter(c, data, outcome) ==
    /\ ProviderAcceptsClients
    /\ apc[c] = "idle"
    /\ IF outcome = "ok"
       THEN /\ record' = [record EXCEPT ![c] = "allocated"]
            /\ client_data' = [client_data EXCEPT ![c] = data]
            /\ work_item' = [work_item EXCEPT ![c] = "allocated"]
            /\ rundown' = [rundown EXCEPT ![c] = InitRundown]
            /\ binding' = [binding EXCEPT ![c] = NULL]
            /\ apc' = [apc EXCEPT ![c] = "callback"]
            /\ hist' = [hist EXCEPT ![c].outcome = outcome]
            /\ UNCHANGED status
       ELSE /\ record' = [record EXCEPT ![c] = RecordAfterCleanup(outcome)]
            /\ binding' = [binding EXCEPT ![c] =
                              IF outcome = "null_argument" THEN Untouched ELSE NULL]
            /\ status' = [status EXCEPT ![c] = CleanupStatus(outcome)]
            /\ apc' = [apc EXCEPT ![c] = "done"]
            /\ hist' = [hist EXCEPT ![c].outcome = outcome,
                                    ![c].record_frees =
                                        IF RecordAfterCleanup(outcome) = "freed"
                                        THEN @ + 1 ELSE @]
            /\ UNCHANGED <<client_data, work_item, rundown>>
    /\ UNCHANGED <<provider, lock, listVars, detachVars, invokeVars>>

\* attach_callback -> ebpf_extension_hook_check_attach_parameter: take the lock shared.
MatcherLock(c) ==
    /\ apc[c] = "callback"
    /\ AcquireShared
    /\ apc' = [apc EXCEPT ![c] = "matching"]
    /\ UNCHANGED <<provider, hist, listVars, record, client_data, work_item, rundown, status, binding,
                   detachVars, invokeVars>>

\* What the hook's attach callback can answer when the matcher approves: it
\* accepts, or it vetoes the client with a failure code of its own.
CallbackAnswers == {"EBPF_SUCCESS", "EBPF_INVALID_ARGUMENT"}

\* The result of the attach callback: the matcher's denial, else the hook's answer.
attach_callback(matcher_result, answer) ==
    IF matcher_result = "EBPF_SUCCESS" THEN answer ELSE matcher_result

\* Mutant: the callback's own failure code is translated and handed on.
AttachStatusPassedOn(result) ==
    CASE result = "EBPF_SUCCESS" -> "STATUS_SUCCESS"
      [] result = "EBPF_ACCESS_DENIED" -> "STATUS_ACCESS_DENIED"
      [] OTHER -> "STATUS_INVALID_PARAMETER"

\* The status the handler derives from the callback's result.
AttachStatus(result) ==
    IF result = "EBPF_SUCCESS" THEN "STATUS_SUCCESS" ELSE "STATUS_ACCESS_DENIED"

\* Mutant: the matcher takes a reference on the guard of the first client it meets.
MatcherCheckTakesReference(c, answer) ==
    /\ apc[c] = "matching"
    /\ ReleaseShared
    /\ rundown' = IF IsListEmpty THEN rundown
                  ELSE [rundown EXCEPT ![flink[ListHead]] = AcquireEffect(@)]
    /\ LET matcher_result == check_attach_parameter(RequestedParameter(c))
           result == attach_callback(matcher_result, answer)
       IN IF result = "EBPF_SUCCESS"
          THEN /\ apc' = [apc EXCEPT ![c] = "approved"]
               /\ hist' = [hist EXCEPT ![c].matcher_result = matcher_result,
                                       ![c].callback_result = result]
               /\ UNCHANGED <<record, work_item, status>>
          ELSE /\ apc' = [apc EXCEPT ![c] = "done"]
               /\ status' = [status EXCEPT ![c] = AttachStatus(result)]
               /\ work_item' = [work_item EXCEPT ![c] = "freed"]
               /\ record' = [record EXCEPT ![c] = "freed"]
               /\ hist' = [hist EXCEPT ![c].matcher_result = matcher_result,
                                       ![c].callback_result = result,
                                       ![c].work_item_frees = @ + 1,
                                       ![c].record_frees = @ + 1]
    /\ UNCHANGED <<provider, listVars, client_data, binding, detachVars, invokeVars>>

\* Mutant: a matcher that refuses returns without dropping the lock.
MatcherCheckRefusalKeepsLock(c, answer) ==
    /\ apc[c] = "matching"
    /\ LET matcher_result == check_attach_parameter(RequestedParameter(c))
           result == attach_callback(matcher_result, answer)
       IN /\ IF matcher_result = "EBPF_SUCCESS" THEN ReleaseShared ELSE UNCHANGED lock
          /\ IF result = "EBPF_SUCCESS"
             THEN /\ apc' = [apc EXCEPT ![c] = "approved"]
                  /\ hist' = [hist EXCEPT ![c].matcher_result = matcher_result,
                                          ![c].callback_result = result]
                  /\ UNCHANGED <<record, work_item, status>>
             ELSE /\ apc' = [apc EXCEPT ![c] = "done"]
                  /\ status' = [status EXCEPT ![c] = AttachStatus(result)]
                  /\ work_item' = [work_item EXCEPT ![c] = "freed"]
                  /\ record' = [record EXCEPT ![c] = "freed"]
                  /\ hist' = [hist EXCEPT ![c].matcher_result = matcher_result,
                                          ![c].callback_result = result,
                                          ![c].work_item_frees = @ + 1,
                                          ![c].record_frees = @ + 1]
    /\ UNCHANGED <<provider, listVars, client_data, rundown, binding, detachVars, invokeVars>>

\* The matcher decides and drops the lock, the callback returns; a failure makes
\* the handler clean up and return.
MatcherCheck(c, answer) ==
    /\ apc[c] = "matching"
    /\ ReleaseShared
    /\ LET matcher_result == check_attach_parameter(RequestedParameter(c))
           result == attach_callback(matcher_result, answer)
       IN IF result = "EBPF_SUCCESS"
          THEN /\ apc' = [apc EXCEPT ![c] = "approved"]
               /\ hist' = [hist EXCEPT ![c].matcher_result = matcher_result,
                                       ![c].callback_result = result]
               /\ UNCHANGED <<record, work_item, status>>
          ELSE /\ apc' = [apc EXCEPT ![c] = "done"]
               /\ status' = [status EXCEPT ![c] = AttachStatus(result)]
               /\ work_item' = [work_item EXCEPT ![c] = "freed"]
               /\ record' = [record EXCEPT ![c] = "freed"]
               /\ hist' = [hist EXCEPT ![c].matcher_result = matcher_result,
                                       ![c].callback_result = result,
                                       ![c].work_item_frees = @ + 1,
                                       ![c].record_frees = @ + 1]
    /\ UNCHANGED <<provider, listVars, client_data, rundown, binding, detachVars, invokeVars>>

\* ExAcquireSpinLockExclusive before the insertion.
InsertLock(c) ==
    /\ apc[c] = "approved"
    /\ AcquireExclusive
    /\ apc' = [apc EXCEPT ![c] = "inserting"]
    /\ UNCHANGED <<provider, hist, listVars, record, client_data, work_item, rundown, status, binding,
                   detachVars, invokeVars>>

\* InsertTailList, release, *provider_binding_context = hook_client, return.
InsertTail(c) ==
    /\ apc[c] = "inserting"
    /\ flink' = InsertTailFlink(c)
    /\ blink' = InsertTailBlink(c)
    /\ ReleaseExclusive
    /\ linkOrder' = Append(linkOrder, c)
    /\ binding' = [binding EXCEPT ![c] = c]
    /\ status' = [status EXCEPT ![c] = "STATUS_SUCCESS"]
    /\ apc' = [apc EXCEPT ![c] = "done"]
    /\ UNCHANGED <<provider, hist, record, client_data, work_item, rundown, detachVars, invokeVars>>

\* ---------------------------------------------------------- detach handler
\* Mutant: the handler unlinks the client before it invokes the detach callback.
DetachCallbackUnlinksFirst(c) ==
    /\ apc[c] = "done" /\ status[c] = "STATUS_SUCCESS"
    /\ dpc[c] = "idle"
    /\ LockFree
    /\ flink' = RemoveEntryFlink(c)
    /\ blink' = RemoveEntryBlink(c)
    /\ dpc' = [dpc EXCEPT ![c] = "called_back"]
    /\ hist' = [hist EXCEPT ![c].detach_callbacks = @ + 1]
    /\ UNCHANGED <<provider, lock, linkOrder, record, client_data, work_item, rundown,
                   attachVars, wpc, completions, invokeVars>>

\* The binding mechanism detaches a bound client once: detach_callback runs first.
DetachCallback(c) ==
    /\ apc[c] = "done" /\ status[c] = "STATUS_SUCCESS"
    /\ dpc[c] = "idle"
    /\ dpc' = [dpc EXCEPT ![c] = "called_back"]
    /\ hist' = [hist EXCEPT ![c].detach_callbacks = @ + 1]
    /\ UNCHANGED <<provider, lock, listVars, record, client_data, work_item, rundown, attachVars,
                   wpc, completions, invokeVars>>

DetachLock(c) ==
    /\ dpc[c] = "called_back"
    /\ AcquireExclusive
    /\ dpc' = [dpc EXCEPT ![c] = "removing"]
    /\ UNCHANGED <<provider, hist, listVars, record, work_item, rundown, attachVars,
                   wpc, completions, invokeVars>>

\* RemoveEntryList and release of the lock.
DetachRemove(c) ==
    /\ dpc[c] = "removing"
    /\ flink' = RemoveEntryFlink(c)
    /\ blink' = RemoveEntryBlink(c)
    /\ ReleaseExclusive
    /\ dpc' = [dpc EXCEPT ![c] = "unlinked"]
    /\ UNCHANGED <<provider, hist, linkOrder, record, work_item, rundown, attachVars,
                   wpc, completions, invokeVars>>

\* Mutant: the handler drains the guard itself before it queues the work item.
DetachQueueAfterDrain(c) ==
    /\ dpc[c] = "unlinked"
    /\ WaitMayReturn(rundown[c])
    /\ work_item' = [work_item EXCEPT ![c] = "queued"]
    /\ wpc' = [wpc EXCEPT ![c] = "queued"]
    /\ dpc' = [dpc EXCEPT ![c] = "pending"]
    /\ hist' = [hist EXCEPT ![c].detach_status = "STATUS_PENDING"]
    /\ UNCHANGED <<provider, lock, listVars, record, rundown, attachVars, completions, invokeVars>>

\* Mutant: the handler returns STATUS_PENDING without queuing the work item.
DetachWithoutQueue(c) ==
    /\ dpc[c] = "unlinked"
    /\ dpc' = [dpc EXCEPT ![c] = "pending"]
    /\ hist' = [hist EXCEPT ![c].detach_status = "STATUS_PENDING"]
    /\ UNCHANGED <<provider, lock, listVars, record, work_item, rundown, attachVars, wpc,
                   completions, invokeVars>>

\* IoQueueWorkItem, return STATUS_PENDING.
DetachQueue(c) ==
    /\ dpc[c] = "unlinked"
    /\ work_item' = [work_item EXCEPT ![c] = "queued"]
    /\ wpc' = [wpc EXCEPT ![c] = "queued"]
    /\ dpc' = [dpc EXCEPT ![c] = "pending"]
    /\ hist' = [hist EXCEPT ![c].detach_status = "STATUS_PENDING"]
    /\ UNCHANGED <<provider, lock, listVars, record, rundown, attachVars, completions, invokeVars>>

\* ------------------------------------------- detach-completion work item
\* ExWaitForRundownProtectionRelease starts: the guard is run down.
WorkItemWait(c) ==
    /\ wpc[c] = "queued"
    /\ rundown' = [rundown EXCEPT ![c] = WaitBeginEffect(@)]
    /\ wpc' = [wpc EXCEPT ![c] = "waiting"]
    /\ UNCHANGED <<provider, hist, lock, listVars, record, work_item, attachVars, dpc, completions,
                   invokeVars>>

\* The wait returns, rundown->rundown_occurred = TRUE, IoFreeWorkItem(work_item).
WorkItemRundown(c) ==
    /\ wpc[c] = "waiting"
    /\ WaitMayReturn(rundown[c])
    /\ rundown' = [rundown EXCEPT ![c].rundown_occurred = TRUE]
    /\ work_item' = [work_item EXCEPT ![c] = "freed"]
    /\ wpc' = [wpc EXCEPT ![c] = "drained"]
    /\ hist' = [hist EXCEPT ![c].work_item_frees = @ + 1]
    /\ UNCHANGED <<provider, lock, listVars, record, attachVars, dpc, completions, invokeVars>>

\* Mutant: the work item releases the record itself before it reports completion.
WorkItemCompleteFreesRecord(c) ==
    /\ wpc[c] = "drained"
    /\ completions' = [completions EXCEPT ![c] = @ + 1]
    /\ wpc' = [wpc EXCEPT ![c] = "completed"]
    /\ record' = [record EXCEPT ![c] = "freed"]
    /\ hist' = [hist EXCEPT ![c].record_frees = @ + 1]
    /\ UNCHANGED <<provider, lock, listVars, work_item, rundown, attachVars, dpc,
                   invokeVars>>

\* NmrProviderDetachClientComplete(hook_client->nmr_binding_handle)
WorkItemComplete(c) ==
    /\ wpc[c] = "drained"
    /\ completions' = [completions EXCEPT ![c] = @ + 1]
    /\ wpc' = [wpc EXCEPT ![c] = "completed"]
    /\ UNCHANGED <<provider, hist, lock, listVars, record, work_item, rundown, attachVars, dpc,
                   invokeVars>>

\* The binding mechanism releases the binding context once detach is complete.
CleanupBindingContext(c) ==
    /\ wpc[c] = "completed"
    /\ record' = [record EXCEPT ![c] = "freed"]
    /\ wpc' = [wpc EXCEPT ![c] = "cleaned"]
    /\ hist' = [hist EXCEPT ![c].record_frees = @ + 1]
    /\ UNCHANGED <<provider, lock, listVars, work_item, rundown, attachVars, dpc, completions,
                   invokeVars>>

\* -------------------------------------------------------- invocation path
\* ebpf_extension_hook_get_attached_client: take the lock shared.
GetClientLock(i) ==
    /\ ipc[i] = "idle"
    /\ AcquireShared
    /\ ipc' = [ipc EXCEPT ![i] = "reading"]
    /\ UNCHANGED <<provider, hist, visited, listVars, record, work_item, rundown, attachVars, detachVars,
                   iclient, iheld>>

\* Mutant: the last entry is returned instead of the first.
last_client == IF IsListEmpty THEN NULL ELSE blink[ListHead]

\* The first entry of the list, or NULL; the lock is dropped before returning.
first_client == IF IsListEmpty THEN NULL ELSE flink[ListHead]

GetClient(i) ==
    /\ ipc[i] = "reading"
    /\ ReleaseShared
    /\ iclient' = [iclient EXCEPT ![i] = first_client]
    /\ ipc' = [ipc EXCEPT ![i] = IF first_client = NULL THEN "idle" ELSE "candidate"]
    /\ UNCHANGED <<provider, hist, visited, listVars, record, work_item, rundown, attachVars, detachVars, iheld>>

\* ebpf_extension_hook_client_enter_rundown on the pointer obtained.  On a
\* record that has been released the read of the guard may give either answer.
EnterRundown(i) ==
    /\ ipc[i] = "candidate"
    /\ LET c == iclient[i] IN
       IF record[c] = "freed"
       THEN /\ \E acquired \in BOOLEAN :
                   ipc' = [ipc EXCEPT ![i] = IF acquired THEN "invoking" ELSE "idle"]
            /\ UNCHANGED <<rundown, iheld>>
       ELSE /\ rundown' = [rundown EXCEPT ![c] = AcquireEffect(@)]
            /\ iheld' = [iheld EXCEPT ![i] = AcquireResult(rundown[c])]
            /\ ipc' = [ipc EXCEPT ![i] =
                          IF AcquireResult(rundown[c]) THEN "invoking" ELSE "idle"]
    /\ UNCHANGED <<provider, hist, visited, lock, listVars, record, work_item, attachVars, detachVars, iclient>>

\* ebpf_extension_hook_invoke_program: the client's entry point runs and returns.
InvokeProgram(i) ==
    /\ ipc[i] = "invoking"
    /\ ipc' = [ipc EXCEPT ![i] = "leaving"]
    /\ UNCHANGED <<provider, hist, visited, lock, listVars, record, work_item, rundown, attachVars, detachVars,
                   iclient, iheld>>

\* ebpf_extension_hook_client_leave_rundown
LeaveRundown(i) ==
    /\ ipc[i] = "leaving"
    /\ IF iheld[i]
       THEN rundown' = [rundown EXCEPT ![iclient[i]] = ReleaseEffect(@)]
       ELSE UNCHANGED rundown
    /\ iheld' = [iheld EXCEPT ![i] = FALSE]
    /\ ipc' = [ipc EXCEPT ![i] = "idle"]
    /\ UNCHANGED <<provider, hist, visited, lock, listVars, record, work_item, attachVars, detachVars, iclient>>

\* ebpf_extension_hook_get_next_attached_client(provider_context, client_context)
\* with the pointer the thread holds, NULL or a client it was handed before:
\* take the lock shared.  The history of an iteration is kept to MaxVisited entries.
MaxVisited == NumClients

GetNextLock(i) ==
    /\ ipc[i] = "idle"
    /\ Len(visited[i]) <= MaxVisited
    /\ AcquireShared
    /\ ipc' = [ipc EXCEPT ![i] = "reading_next"]
    /\ UNCHANGED <<provider, hist, listVars, record, work_item, rundown, attachVars, detachVars,
                   iclient, iheld, visited>>

\* Mutant: the iteration hands back the entry before client_context.
previous_client(client_context) ==
    IF client_context = NULL THEN {first_client}
    ELSE IF record[client_context] = "freed" THEN Clients \cup {NULL}
    ELSE IF blink[client_context] # ListHead THEN {blink[client_context]}
    ELSE {NULL}

\* What get_next_attached_client can return: the first entry for NULL, else the
\* entry client_context->link.Flink points at, NULL when that is the list head.
\* The link of a record that has been freed may read as anything.
next_client(client_context) ==
    IF client_context = NULL THEN {first_client}
    ELSE IF record[client_context] = "freed" THEN Clients \cup {NULL}
    ELSE IF flink[client_context] # ListHead THEN {flink[client_context]}
    ELSE {NULL}

\* The result is read and the lock dropped.
GetNext(i) ==
    /\ ipc[i] = "reading_next"
    /\ ReleaseShared
    /\ \E result \in next_client(iclient[i]) :
          /\ iclient' = [iclient EXCEPT ![i] = result]
          /\ ipc' = [ipc EXCEPT ![i] = IF result = NULL THEN "idle" ELSE "candidate"]
          /\ visited' = [visited EXCEPT ![i] =
                            IF result = NULL THEN (IF iclient[i] = NULL THEN <<>> ELSE @)
                            ELSE IF iclient[i] = NULL THEN <<result>>
                            ELSE Append(@, result)]
    /\ UNCHANGED <<provider, hist, listVars, record, work_item, rundown, attachVars, detachVars,
                   iheld>>

\* ------------------------------------------------------------------- Next
Next ==
    \/ \E c \in ConcurrentClients, data \in ClientData, outcome \in AttachOutcomes :
           AttachEnter(c, data, outcome)
    \/ \E c \in Clients : MatcherLock(c)
    \/ \E c \in Clients, answer \in CallbackAnswers : MatcherCheck(c, answer)
    \/ \E c \in Clients : InsertLock(c)
    \/ \E c \in Clients : InsertTail(c)
    \/ \E c \in Clients : DetachCallback(c)
    \/ \E c \in Clients : DetachLock(c)
    \/ \E c \in Clients : DetachRemove(c)
    \/ \E c \in Clients : DetachQueue(c)
    \/ \E c \in Clients : WorkItemWait(c)
    \/ \E c \in Clients : WorkItemRundown(c)
    \/ \E c \in Clients : WorkItemComplete(c)
    \/ \E c \in Clients : CleanupBindingContext(c)
    \/ \E i \in Invokers : GetClientLock(i)
    \/ \E i \in Invokers : GetClient(i)
    \/ \E i \in Invokers : EnterRundown(i)
    \/ \E i \in Invokers : InvokeProgram(i)
    \/ \E i \in Invokers : LeaveRundown(i)

Spec == Init /\ [][Next]_vars

\* The same operations, one at a time: the binding mechanism starts an attach or
\* a detach, and a queued work item starts to run, only when no handler and no
\* work item is running, and no hook event arrives.  A queued work item may
\* still be delayed past later attaches and detaches.
NoHandlerRunning ==
    \A c \in Clients :
        /\ apc[c] \in {"idle", "done"}
        /\ dpc[c] \in {"idle", "pending"}
        /\ wpc[c] \in {"none", "queued", "cleaned"}

SeqNext ==
    \/ \E c \in Clients, data \in ClientData, outcome \in AttachOutcomes :
           NoHandlerRunning /\ AttachEnter(c, data, outcome)
    \/ \E c \in Clients : MatcherLock(c)
    \/ \E c \in Clients, answer \in CallbackAnswers : MatcherCheck(c, answer)
    \/ \E c \in Clients : InsertLock(c)
    \/ \E c \in Clients : InsertTail(c)
    \/ \E c \in Clients : NoHandlerRunning /\ DetachCallback(c)
    \/ \E c \in Clients : DetachLock(c)
    \/ \E c \in Clients : DetachRemove(c)
    \/ \E c \in Clients : DetachQueue(c)
    \/ \E c \in Clients : NoHandlerRunning /\ WorkItemWait(c)
    \/ \E c \in Clients : WorkItemRundown(c)
    \/ \E c \in Clients : WorkItemComplete(c)
    \/ \E c \in Clients : CleanupBindingContext(c)

SeqSpec == Init /\ [][SeqNext]_vars

\* Fairness of the scheduling the code relies on: a queued work item runs, a
\* thread that is not blocked takes its next step (an entry point returns, a
\* spin lock is released), and a handler spinning for the exclusive lock gets it.
Fairness ==
    /\ \A c \in Clients :
        /\ WF_vars(\E answer \in CallbackAnswers : MatcherCheck(c, answer)) /\ WF_vars(InsertTail(c))
        /\ SF_vars(DetachLock(c)) /\ WF_vars(DetachRemove(c)) /\ WF_vars(DetachQueue(c))
        /\ WF_vars(WorkItemWait(c)) /\ WF_vars(WorkItemRundown(c))
        /\ WF_vars(WorkItemComplete(c))
    /\ \A i \in Invokers :
        /\ WF_vars(GetClient(i)) /\ WF_vars(EnterRundown(i))
        /\ WF_vars(InvokeProgram(i)) /\ WF_vars(LeaveRundown(i))

FairSpec == Spec /\ Fairness

\* ------------------------------------------------ provider registration
\* What NmrRegisterProvider can return.
NmrRegisterResults == {"STATUS_SUCCESS", "STATUS_INSUFFICIENT_RESOURCES", "STATUS_UNSUCCESSFUL"}

\* ebpf_extension_hook_provider_unregister on a provider whose
\* nmr_provider_handle is NULL: no deregistration, ExFreePool.
UnregisterUnbound(p) == [p EXCEPT !.mem = "freed", !.frees = @ + 1]

\* Mutant: the handle is left as NmrRegisterProvider wrote it, so the unwinding
\* deregisters the provider that was never registered.
RegisterFailedKeepsHandle(p, nmr_status) ==
    [UnregisterUnbound(p) EXCEPT !.nmr_status = nmr_status, !.status = nmr_status,
                                 !.deregister_calls = @ + 1]

\* The failure exit of register after NmrRegisterProvider failed: the handle is
\* set to NULL and the record unwound through unregister.
RegisterFailed(p, nmr_status) ==
    [UnregisterUnbound([p EXCEPT !.nmr = "null"])
        EXCEPT !.nmr_status = nmr_status, !.status = nmr_status]

\* ebpf_extension_hook_provider_register
Register(allocated, nmr_status) ==
    /\ provider = NoProvider
    /\ provider' =
          IF ~allocated THEN [provider EXCEPT !.status = "STATUS_NO_MEMORY"]
          ELSE IF nmr_status # "STATUS_SUCCESS"
          THEN RegisterFailed([provider EXCEPT !.mem = "allocated"], nmr_status)
          ELSE RegisteredProvider
    /\ UNCHANGED <<lock, listVars, record, work_item, rundown, attachVars, detachVars,
                   invokeVars, hist>>

\* NmrWaitForProviderDeregisterComplete returns once no attach is in progress
\* and every client that was attached has been detached and its binding
\* context cleaned up.
DeregisterComplete ==
    \A c \in Clients :
        /\ apc[c] \in {"idle", "done"}
        /\ status[c] = "STATUS_SUCCESS" => wpc[c] = "cleaned"

\* ebpf_extension_hook_provider_unregister on the registered provider:
\* NmrDeregisterProvider, which answers STATUS_PENDING for a registered handle.
UnregisterDeregister ==
    /\ provider.status = "STATUS_SUCCESS" /\ provider.upc = "idle"
    /\ provider' = [provider EXCEPT !.nmr = "deregistering",
                                    !.deregister_calls = @ + 1, !.upc = "waiting"]
    /\ UNCHANGED <<lock, listVars, record, work_item, rundown, attachVars, detachVars,
                   invokeVars, hist>>

\* Mutant: the provider record is freed without waiting for the deregistration.
UnregisterFreeWithoutWait ==
    /\ provider.upc = "waiting"
    /\ provider' = [provider EXCEPT !.nmr = "deregistered", !.mem = "freed",
                                    !.frees = @ + 1, !.upc = "done"]
    /\ UNCHANGED <<lock, listVars, record, work_item, rundown, attachVars, detachVars,
                   invokeVars, hist>>

\* NmrWaitForProviderDeregisterComplete returns, ExFreePool(provider_context).
UnregisterFree ==
    /\ provider.upc = "waiting"
    /\ DeregisterComplete
    /\ provider' = [provider EXCEPT !.nmr = "deregistered", !.mem = "freed",
                                    !.frees = @ + 1, !.upc = "done"]
    /\ UNCHANGED <<lock, listVars, record, work_item, rundown, attachVars, detachVars,
                   invokeVars, hist>>

\* The detach handler called with a NULL handle reads
\* local_client_context->provider_context before it compares the handle with
\* NULL.  The read faults and stops the system, or, the value being unused on
\* that path, the build does not perform it and the handler returns
\* STATUS_INVALID_PARAMETER.
NullDetachOutcomes == {"fault", "STATUS_INVALID_PARAMETER"}

DetachNull(outcome) ==
    /\ provider.nmr = "registered" /\ provider.null_detach = "none"
    /\ provider' = [provider EXCEPT !.null_detach = outcome]
    /\ UNCHANGED <<lock, listVars, record, work_item, rundown, attachVars, detachVars,
                   invokeVars, hist>>

\* The system has not been stopped by a fault.
Running == provider.null_detach # "fault"

\* The life of a provider: registration, attaches and detaches of its clients
\* in any interleaving, and unregistration, until the system stops.
ProviderNext ==
    \/ \E outcome \in NullDetachOutcomes : DetachNull(outcome)
    \/ Running /\ \E allocated \in BOOLEAN, nmr_status \in NmrRegisterResults :
           Register(allocated, nmr_status)
    \/ Running /\ UnregisterDeregister
    \/ Running /\ UnregisterFree
    \/ Running /\ \E c \in ConcurrentClients, data \in ClientData, outcome \in AttachOutcomes :
           AttachEnter(c, data, outcome)
    \/ Running /\ \E c \in Clients : MatcherLock(c)
    \/ Running /\ \E c \in Clients, answer \in CallbackAnswers : MatcherCheck(c, answer)
    \/ Running /\ \E c \in Clients : InsertLock(c)
    \/ Running /\ \E c \in Clients : InsertTail(c)
    \/ Running /\ \E c \in Clients : DetachCallback(c)
    \/ Running /\ \E c \in Clients : DetachLock(c)
    \/ Running /\ \E c \in Clients : DetachRemove(c)
    \/ Running /\ \E c \in Clients : DetachQueue(c)
    \/ Running /\ \E c \in Clients : WorkItemWait(c)
    \/ Running /\ \E c \in Clients : WorkItemRundown(c)
    \/ Running /\ \E c \in Clients : WorkItemComplete(c)
    \/ Running /\ \E c \in Clients : CleanupBindingContext(c)

ProviderSpec == InitUnregistered /\ [][ProviderNext]_vars

\* ------------------------------------------------- the matcher by itself
\* Sequences of distinct clients: the lists the provider can hold.
ClientLists ==
    {L \in UNION {[1..n -> Clients] : n \in 0..(NumClients - 1)} :
        \A j, k \in 1..Len(L) : L[j] = L[k] => j = k}

\* Flink and Blink of the list that holds the clients of L in this order.
FlinkOf(L) ==
    [n \in Nodes |->
        IF n = ListHead THEN (IF L = <<>> THEN ListHead ELSE L[1])
        ELSE IF \E k \in 1..Len(L) : L[k] = n
             THEN LET k == CHOOSE k \in 1..Len(L) : L[k] = n
                  IN IF k = Len(L) THEN ListHead ELSE L[k + 1]
             ELSE NULL]
BlinkOf(L) ==
    [n \in Nodes |->
        IF n = ListHead THEN (IF L = <<>> THEN ListHead ELSE L[Len(L)])
        ELSE IF \E k \in 1..Len(L) : L[k] = n
             THEN LET k == CHOOSE k \in 1..Len(L) : L[k] = n
                  IN IF k = 1 THEN ListHead ELSE L[k - 1]
             ELSE NULL]

\* The matcher is about to be called for client r on a list L of attached
\* clients, whatever parameters r and the clients of L hold: the clients of L
\* have been attached (overlapping attaches can link any combination), r has
\* passed the first part of its attach.
InitMatcher ==
    \E L \in ClientLists, r \in Clients, d \in [Clients -> ClientData] :
        LET linked == SeqToSet(L) IN
        /\ r \notin linked
        /\ \A c \in Clients \ (linked \cup {r}) : d[c] = <<>>
        /\ lock = [w |-> FALSE, r |-> 0]
        /\ flink = FlinkOf(L)
        /\ blink = BlinkOf(L)
        /\ linkOrder = L
        /\ record = [c \in Clients |-> IF c \in linked \cup {r} THEN "allocated" ELSE "none"]
        /\ client_data = d
        /\ work_item = [c \in Clients |-> IF c \in linked \cup {r} THEN "allocated" ELSE "null"]
        /\ rundown = [c \in Clients |-> InitRundown]
        /\ apc = [c \in Clients |->
                     IF c \in linked THEN "done" ELSE IF c = r THEN "callback" ELSE "idle"]
        /\ status = [c \in Clients |-> IF c \in linked THEN "STATUS_SUCCESS" ELSE "none"]
        /\ binding = [c \in Clients |->
                         IF c \in linked THEN c ELSE IF c = r THEN NULL ELSE Untouched]
        /\ dpc = [c \in Clients |-> "idle"]
        /\ wpc = [c \in Clients |-> "none"]
        /\ completions = [c \in Clients |-> 0]
        /\ ipc = [i \in Invokers |-> "idle"]
        /\ iclient = [i \in Invokers |-> NULL]
        /\ iheld = [i \in Invokers |-> FALSE]
        /\ visited = [i \in Invokers |-> <<>>]
        /\ hist = [c \in Clients |->
                      IF c \in linked
                      THEN [NoHistory EXCEPT !.outcome = "ok",
                                             !.matcher_result = "EBPF_SUCCESS",
                                             !.callback_result = "EBPF_SUCCESS"]
                      ELSE IF c = r THEN [NoHistory EXCEPT !.outcome = "ok"]
                      ELSE NoHistory]
        /\ provider = RegisteredProvider

MatcherNext ==
    \/ \E c \in Clients : MatcherLock(c)
    \/ \E c \in Clients, answer \in CallbackAnswers : MatcherCheck(c, answer)

MatcherSpec == InitMatcher /\ [][MatcherNext]_vars

\* ------------------------------------------------ iteration by itself
\* The lists that hold clients of S, each at most once.
AttachedLists(S) ==
    {L \in UNION {[1..n -> S] : n \in 0..Cardinality(S)} :
        \A j, k \in 1..Len(L) : L[j] = L[k] => j = k}

\* The clients of L have been attached in this order and nothing else is going
\* on.  The attach parameters play no part in what follows: the clients
\* registered none, and overlapping attaches linked them.
InitAttached(L) ==
    LET linked == SeqToSet(L) IN
    /\ lock = [w |-> FALSE, r |-> 0]
    /\ flink = FlinkOf(L)
    /\ blink = BlinkOf(L)
    /\ linkOrder = L
    /\ record = [c \in Clients |-> IF c \in linked THEN "allocated" ELSE "none"]
    /\ client_data = [c \in Clients |-> <<>>]
    /\ work_item = [c \in Clients |-> IF c \in linked THEN "allocated" ELSE "null"]
    /\ rundown = [c \in Clients |-> InitRundown]
    /\ apc = [c \in Clients |-> IF c \in linked THEN "done" ELSE "idle"]
    /\ status = [c \in Clients |-> IF c \in linked THEN "STATUS_SUCCESS" ELSE "none"]
    /\ binding = [c \in Clients |-> IF c \in linked THEN c ELSE Untouched]
    /\ dpc = [c \in Clients |-> "idle"]
    /\ wpc = [c \in Clients |-> "none"]
    /\ completions = [c \in Clients |-> 0]
    /\ ipc = [i \in Invokers |-> "idle"]
    /\ iclient = [i \in Invokers |-> NULL]
    /\ iheld = [i \in Invokers |-> FALSE]
    /\ visited = [i \in Invokers |-> <<>>]
    /\ hist = [c \in Clients |->
                  IF c \in linked
                  THEN [NoHistory EXCEPT !.outcome = "ok",
                                         !.matcher_result = "EBPF_SUCCESS",
                                         !.callback_result = "EBPF_SUCCESS"]
                  ELSE NoHistory]
    /\ provider = RegisteredProvider

\* A multi-subscriber hook walking the list with get_next_attached_client and
\* invoking each client it is handed, while no attach or detach runs.
InitIter == \E L \in AttachedLists(Clients) : InitAttached(L)

IterNext ==
    \/ \E i \in Invokers : GetNextLock(i)
    \/ \E i \in Invokers : GetNext(i)
    \/ \E i \in Invokers : EnterRundown(i)
    \/ \E i \in Invokers : InvokeProgram(i)
    \/ \E i \in Invokers : LeaveRundown(i)

IterSpec == InitIter /\ [][IterNext]_vars

\* The same walk while the clients are being detached.
InitDetachIter == \E L \in AttachedLists(ConcurrentClients) : InitAttached(L)

DetachIterNext ==
    \/ \E i \in Invokers : GetNextLock(i)
    \/ \E i \in Invokers : GetNext(i)
    \/ \E i \in Invokers : EnterRundown(i)
    \/ \E i \in Invokers : InvokeProgram(i)
    \/ \E i \in Invokers : LeaveRundown(i)
    \/ \E c \in Clients : DetachCallback(c)
    \/ \E c \in Clients : DetachLock(c)
    \/ \E c \in Clients : DetachRemove(c)
    \/ \E c \in Clients : DetachQueue(c)
    \/ \E c \in Clients : WorkItemWait(c)
    \/ \E c \in Clients : WorkItemRundown(c)
    \/ \E c \in Clients : WorkItemComplete(c)
    \/ \E c \in Clients : CleanupBindingContext(c)

DetachIterSpec == InitDetachIter /\ [][DetachIterNext]_vars

\* ------------------------------------------------------- derived notions
\* Clients the detach handler has removed from the list.
Unlinked == {c \in Clients : dpc[c] \in {"unlinked", "pending"}}
InList(c) == c \in SeqToSet(ClientList)
\* Threads inside the entry point of client c.
Invoking(c) == {i \in Invokers : ipc[i] = "invoking" /\ iclient[i] = c}
\* Threads holding a reference on the guard of client c.
Holders(c) == {i \in Invokers : iheld[i] /\ iclient[i] = c}
IsWildCard(c) == RequestedParameter(c) = WildCard

\* ------------------------------------------------------------------ claims

\* C1: once NmrProviderDetachClientComplete has been called for a client, no
\* thread is inside, or enters, that client's invoke entry point.
C1_NoInvocationAfterDetachComplete ==
    \A c \in Clients : completions[c] > 0 => Invoking(c) = {}

C4_DrainWaitsForReferences ==
    \A c \in Clients :
        /\ rundown[c].count = Cardinality(Holders(c))
        /\ (wpc[c] \in {"drained", "completed", "cleaned"}
              \/ rundown[c].rundown_occurred
              \/ (work_item[c] = "freed" /\ dpc[c] = "pending")
              \/ completions[c] > 0)
            => (rundown[c].count = 0 /\ Holders(c) = {})

\* C4 witness: the work item is blocked in the drain while an invocation holds
\* the guard.
C4_Witness ==
    \E c \in Clients :
        wpc[c] = "waiting" /\ rundown[c].count > 0 /\ Holders(c) # {}

\* C5: the detach handler never waits on the guard: while it runs the drain has
\* not started, each of its steps after the lock is taken can be executed
\* whatever the live-reference count is, and taking the lock depends on the
\* lock alone.
C5_DetachHandlerNeverWaits ==
    \A c \in Clients :
        /\ dpc[c] \in {"called_back", "removing", "unlinked"}
              => (~rundown[c].active /\ wpc[c] = "none")
        /\ dpc[c] = "called_back" => (ENABLED DetachLock(c) <=> LockFree)
        /\ dpc[c] = "removing" => ENABLED DetachRemove(c)
        /\ dpc[c] = "unlinked" => ENABLED DetachQueue(c)
        /\ wpc[c] # "none" => dpc[c] = "pending"

\* C5 witness: the handler has returned STATUS_PENDING while an invocation is
\* still in flight and the work item has not run.
C5_Witness ==
    \E c \in Clients :
        dpc[c] = "pending" /\ wpc[c] = "queued" /\ Invoking(c) # {} /\ rundown[c].count > 0

\* C6: under fair scheduling every detach is followed by exactly one call of
\* NmrProviderDetachClientComplete for the client.
C6_DetachCompletesOnce ==
    /\ \A c \in Clients : [](completions[c] <= 1)
    /\ \A c \in Clients : (dpc[c] # "idle") ~> (completions[c] = 1)

\* C6 witness: completion has been reported once for a detached client.
C6_Witness ==
    \E c \in Clients : completions[c] = 1 /\ wpc[c] = "completed"

\* The matcher of client c has just returned and its verdict is the one the
\* attach callback handed on (the hook added no veto of its own).
Validated(c) ==
    /\ apc[c] = "matching" /\ apc'[c] # "matching"
    /\ hist'[c].callback_result = hist'[c].matcher_result
Denied(c) == apc'[c] = "done" /\ status'[c] = "STATUS_ACCESS_DENIED"
\* An approved attach is inserted with the list as the matcher saw it, and
\* returns STATUS_SUCCESS with the client linked.
ApprovedIsLinked(c) ==
    /\ (apc[c] = "approved" => (flink' = flink /\ blink' = blink))
    /\ (apc[c] = "inserting" /\ apc'[c] = "done")
          => (status'[c] = "STATUS_SUCCESS" /\ c \in SeqToSet(ListOf(flink')))

\* C7: with attaches and detaches one at a time, a wildcard attach is approved
\* iff the list is empty when the matcher runs, every attach validated while a
\* wildcard client is linked is denied with access-denied, and an attach
\* validated against an empty list (the wildcard client detached) succeeds.
C7_WildcardExclusivity ==
    [][\A c \in Clients :
          /\ Validated(c) =>
                /\ IsWildCard(c) => (apc'[c] = "approved" <=> ClientList = <<>>)
                /\ (\E k \in SeqToSet(ClientList) : IsWildCard(k)) => Denied(c)
                /\ ClientList = <<>> => apc'[c] = "approved"
          /\ ApprovedIsLinked(c)]_vars

\* C7 witness: a wildcard client was linked, another attach was denied, the
\* wildcard client was detached, and a third attach with the denied parameter
\* was then linked.
C7_Witness ==
    \E a, b, d \in Clients :
        /\ a # b /\ b # d /\ a # d
        /\ IsWildCard(a) /\ dpc[a] = "pending"
        /\ status[b] = "STATUS_ACCESS_DENIED"
        /\ client_data[d] = client_data[b]
        /\ status[d] = "STATUS_SUCCESS" /\ linkOrder = <<a, d>> /\ ClientList = <<d>>

\* C8: with attaches and detaches one at a time, an exact attach validated while
\* a client with the same parameter is linked is denied with access-denied and
\* the list is left as it was; validated against clients that all hold other
\* exact parameters it succeeds.
C8_ExactParameterUnique ==
    [][\A c \in Clients :
          /\ (Validated(c) /\ ~IsWildCard(c)) =>
                /\ (\E k \in SeqToSet(ClientList) :
                        RequestedParameter(k) = RequestedParameter(c))
                      => (Denied(c) /\ flink' = flink /\ blink' = blink)
                /\ (\A k \in SeqToSet(ClientList) :
                        ~IsWildCard(k) /\ RequestedParameter(k) # RequestedParameter(c))
                      => apc'[c] = "approved"
          /\ ApprovedIsLinked(c)]_vars

\* C8 witness: two clients with different exact parameters are linked and a
\* third attach repeating one of the parameters was denied.
C8_Witness ==
    \E a, b, d \in Clients :
        /\ ClientList = <<a, b>>
        /\ ~IsWildCard(a) /\ ~IsWildCard(b) /\ client_data[a] # client_data[b]
        /\ client_data[d] = client_data[a] /\ d \notin {a, b}
        /\ status[d] = "STATUS_ACCESS_DENIED"

\* C9: the list never holds two clients with the same parameter, nor a wildcard
\* client together with another client.
C9_ListIsExclusive ==
    \A a, b \in SeqToSet(ClientList) :
        a # b => (~IsWildCard(a) /\ RequestedParameter(a) # RequestedParameter(b))

\* C10: the list holds exactly the clients whose attach linked them and whose
\* detach has not unlinked them, each once, in the order they were linked.
NotUnlinked(c) == c \notin Unlinked
C10_ListInAttachOrder ==
    /\ ClientList = SelectSeq(linkOrder, NotUnlinked)
    /\ \A j, k \in 1..Len(linkOrder) : linkOrder[j] = linkOrder[k] => j = k
    /\ \A c \in Clients :
          (\E k \in 1..Len(linkOrder) : linkOrder[k] = c) <=> status[c] = "STATUS_SUCCESS"

\* C10 witness: of three linked clients the first or the middle one was
\* detached and the other two remain in their order.
C10_Witness ==
    /\ Len(linkOrder) = 3
    /\ Unlinked = {linkOrder[2]}
    /\ ClientList = <<linkOrder[1], linkOrder[3]>>

\* An attach handler that has returned a failure.
FailedAttach(c) == apc[c] = "done" /\ status[c] # "STATUS_SUCCESS"

\* Nothing of client c is left: it was never linked, no list entry points at it,
\* and its record and work item, where they were allocated, are released.
Unwound(c) ==
    /\ \A k \in 1..Len(linkOrder) : linkOrder[k] # c
    /\ flink[c] = NULL /\ blink[c] = NULL
    /\ \A n \in Nodes : flink[n] # c /\ blink[n] # c
    /\ record[c] \in {"none", "freed"}
    /\ work_item[c] \in {"null", "freed"}

\* A handler that returned success handed out the linked record.
SuccessHasHandle(c) ==
    (apc[c] = "done" /\ status[c] = "STATUS_SUCCESS")
        => (binding[c] = c /\ record[c] # "none")

\* C11 as stated: every failed attach is fully unwound (the list as before, the
\* record and the work item released) and has set *provider_binding_context to
\* NULL; a successful one hands out the record.
C11_FailedAttachUnwoundHandleNull ==
    \A c \in Clients :
        /\ FailedAttach(c) => (Unwound(c) /\ binding[c] = NULL)
        /\ SuccessHasHandle(c)

\* C11 amended: every failed attach is fully unwound; *provider_binding_context
\* is NULL after every failure but that of the first argument check, which
\* returns before the output parameters are written.
C11_FailedAttachUnwound ==
    \A c \in Clients :
        /\ FailedAttach(c) =>
              /\ Unwound(c)
              /\ binding[c] = IF hist[c].outcome = "null_argument" THEN Untouched ELSE NULL
        /\ SuccessHasHandle(c)

\* C11 witness: one attach was turned down by the callback after its record and
\* work item had been allocated, and the list holds just the client linked before.
C11_Witness ==
    \E a, b \in Clients :
        /\ FailedAttach(a) /\ hist[a].callback_result # "none"
        /\ hist[a].record_frees = 1 /\ hist[a].work_item_frees = 1
        /\ linkOrder = <<b>> /\ ClientList = <<b>>

\* An attach request that lacked a field the handler checks for: one of the
\* output pointers or the provider context, or the client's dispatch table
\* holding the invoke entry point.
MissingField(c) == hist[c].outcome \in {"null_argument", "null_dispatch"}

\* C12: an attach request with a required field absent is rejected with
\* invalid-parameter before any record is allocated and before the attach
\* callback is invoked, and the client is never linked.
C12_MissingFieldRejectedAtOnce ==
    \A c \in Clients :
        MissingField(c) =>
            /\ apc[c] = "done" /\ status[c] = "STATUS_INVALID_PARAMETER"
            /\ record[c] = "none" /\ hist[c].record_frees = 0
            /\ hist[c].callback_result = "none"
            /\ \A k \in 1..Len(linkOrder) : linkOrder[k] # c

\* An attach whose callback returned a failure: the matcher's denial or a veto
\* of the hook with a code of its own.
CallbackFailed(c) == hist[c].callback_result \notin {"none", "EBPF_SUCCESS"}

\* C13: when the attach callback fails, whatever its failure code, the handler
\* returns access-denied, the client is never inserted, and its record and work
\* item are released.
C13_CallbackFailureIsAccessDenied ==
    \A c \in Clients :
        CallbackFailed(c) =>
            /\ apc[c] = "done" /\ status[c] = "STATUS_ACCESS_DENIED"
            /\ Unwound(c)
            /\ record[c] = "freed" /\ work_item[c] = "freed"
            /\ binding[c] = NULL

\* C13 witness: the matcher approved the client and the hook's callback vetoed
\* it with a code other than access-denied; another client is linked.
C13_Witness ==
    \E c, k \in Clients :
        /\ hist[c].matcher_result = "EBPF_SUCCESS"
        /\ hist[c].callback_result = "EBPF_INVALID_ARGUMENT"
        /\ status[c] = "STATUS_ACCESS_DENIED"
        /\ ClientList = <<k>>

\* An attach during which ExAllocatePoolUninitialized of the record or
\* IoAllocateWorkItem failed.
AllocationFailed(c) == hist[c].outcome \in {"no_record", "no_work_item"}
ResourceExhausted == {"STATUS_NO_MEMORY", "STATUS_INSUFFICIENT_RESOURCES"}

\* C14: when the allocation of the record or of the work item fails, the
\* handler returns a resource-exhausted status, the attach callback is not
\* invoked and the list is not touched; nothing of the failed attach is left
\* behind, so a later attach is validated as if it had not happened.
C14_AllocationFailureIsClean ==
    \A c \in Clients :
        AllocationFailed(c) =>
            /\ apc[c] = "done" /\ status[c] \in ResourceExhausted
            /\ hist[c].matcher_result = "none" /\ hist[c].callback_result = "none"
            /\ Unwound(c)
            /\ hist[c].record_frees = (IF hist[c].outcome = "no_work_item" THEN 1 ELSE 0)
            /\ hist[c].work_item_frees = 0
            /\ client_data[c] = <<>> /\ binding[c] = NULL

\* C14 witness: one attach failed on the record allocation, another on the
\* work-item allocation, and an attach after them was linked.
C14_Witness ==
    \E a, b, c \in Clients :
        /\ hist[a].outcome = "no_record" /\ status[a] = "STATUS_NO_MEMORY"
        /\ hist[b].outcome = "no_work_item" /\ status[b] = "STATUS_INSUFFICIENT_RESOURCES"
        /\ status[c] = "STATUS_SUCCESS" /\ ClientList = <<c>>

\* C15: the detach of a linked client is never rejected: the handler's only
\* result is STATUS_PENDING, when it returns the client is out of the list and
\* neither the head nor a linked entry points at it, and the work item that
\* will report completion has been queued; completion is reported at most once.
C15_DetachNeverFails ==
    \A c \in Clients :
        /\ hist[c].detach_status \in {"none", "STATUS_PENDING"}
        /\ dpc[c] # "idle" => status[c] = "STATUS_SUCCESS"
        /\ dpc[c] = "pending" =>
              /\ hist[c].detach_status = "STATUS_PENDING"
              /\ ~InList(c)
              /\ \A n \in {ListHead} \cup SeqToSet(ClientList) :
                    flink[n] # c /\ blink[n] # c
              /\ wpc[c] # "none"
        /\ completions[c] > 0 => (dpc[c] = "pending" /\ completions[c] = 1)

\* C15 witness: of two linked clients the first was detached and its completion
\* reported while the second stays linked.
C15_Witness ==
    \E c, k \in Clients :
        /\ linkOrder = <<c, k>> /\ ClientList = <<k>>
        /\ hist[c].detach_status = "STATUS_PENDING" /\ completions[c] = 1

\* C16: the memory of a client record is freed exactly once over its life: by
\* the cleanup of a rejected attach, or, after a successful attach, by
\* cleanup-binding-context once detach completion was reported, and by neither
\* the detach handler nor the work item; the work item is freed exactly once,
\* by the cleanup of an attach the callback rejected or by the work-item routine.
C16_FreedExactlyOnce ==
    \A c \in Clients :
        /\ hist[c].record_frees = (IF record[c] = "freed" THEN 1 ELSE 0)
        /\ hist[c].work_item_frees = (IF work_item[c] = "freed" THEN 1 ELSE 0)
        /\ record[c] = "freed" => (FailedAttach(c) \/ wpc[c] = "cleaned")
        /\ (FailedAttach(c) /\ hist[c].outcome \in {"ok", "null_dispatch", "no_work_item"})
              => record[c] = "freed"
        /\ (FailedAttach(c) /\ hist[c].outcome = "ok") => work_item[c] = "freed"
        /\ wpc[c] = "cleaned" => (record[c] = "freed" /\ completions[c] = 1)
        /\ work_item[c] = "freed" =>
              (FailedAttach(c) \/ wpc[c] \in {"drained", "completed", "cleaned"})
        /\ wpc[c] \in {"drained", "completed", "cleaned"} => work_item[c] = "freed"

\* C16 witness: one client was rejected by the callback and another went
\* through attach, detach, completion and cleanup; each record and each work
\* item was freed once.
C16_Witness ==
    \E a, b \in Clients :
        /\ FailedAttach(a) /\ hist[a].outcome = "ok"
        /\ hist[a].record_frees = 1 /\ hist[a].work_item_frees = 1
        /\ wpc[b] = "cleaned"
        /\ hist[b].record_frees = 1 /\ hist[b].work_item_frees = 1

\* The provider record has been freed by unregister.
ProviderDestroyed == provider.upc = "done" /\ provider.mem = "freed"

NmrRegisterFailed == provider.nmr_status \notin {"none", "STATUS_SUCCESS"}

\* C19: when NmrRegisterProvider fails, register returns that failure, leaves
\* *provider_context unset, frees the provider record it had built exactly once
\* and does not call NmrDeregisterProvider; a register that succeeds hands out
\* the record, and one that could not allocate it hands out and frees nothing.
C19_RegisterYieldsHandleOrFailure ==
    /\ NmrRegisterFailed =>
          /\ provider.status = provider.nmr_status
          /\ provider.context_out = "untouched"
          /\ provider.mem = "freed" /\ provider.frees = 1
          /\ provider.deregister_calls = 0 /\ provider.nmr = "null"
          /\ \A c \in Clients : apc[c] = "idle"
    /\ provider.status = "STATUS_SUCCESS" =>
          (provider.context_out = "provider" /\ provider.mem # "none")
    /\ provider.status = "STATUS_NO_MEMORY" =>
          /\ provider.context_out = "untouched"
          /\ provider.mem = "none" /\ provider.frees = 0
          /\ provider.deregister_calls = 0
    /\ provider.frees <= 1

\* C19 witness: NmrRegisterProvider failed with STATUS_UNSUCCESSFUL and the
\* record built for it has been freed.
C19_Witness ==
    /\ provider.nmr_status = "STATUS_UNSUCCESSFUL"
    /\ provider.status = "STATUS_UNSUCCESSFUL"
    /\ provider.mem = "freed"

\* Handlers inside the critical section that modifies the list, and threads
\* inside a critical section that reads it (the matcher and get_attached_client).
Writers == {c \in Clients : apc[c] = "inserting" \/ dpc[c] = "removing"}
ReadingMatchers == {c \in Clients : apc[c] = "matching"}
ReadingInvokers == {i \in Invokers : ipc[i] = "reading"}

StoredParameter(k) == IF client_data[k] = <<>> THEN WildCard ELSE client_data[k]

\* C20: for every requested parameter P and every list L of attached clients
\* the matcher returns access-denied iff P is the wildcard W and L is not
\* empty, or P is not W and some client of L stores W or P; otherwise success.
C20_MatcherDecision ==
    \A c \in Clients :
        (hist[c].matcher_result # "none" /\ ~InList(c)) =>
            LET P == RequestedParameter(c)
                L == SeqToSet(ClientList)
                refused == \/ (P = WildCard /\ L # {})
                           \/ (P # WildCard /\ \E k \in L :
                                   StoredParameter(k) \in {WildCard, P})
            IN hist[c].matcher_result =
                   (IF refused THEN "EBPF_ACCESS_DENIED" ELSE "EBPF_SUCCESS")

\* C20 witness: an exact parameter was refused because it is the one the second
\* of two attached clients stores, the first storing another exact parameter.
C20_Witness ==
    \E c \in Clients :
        /\ hist[c].matcher_result = "EBPF_ACCESS_DENIED"
        /\ Len(ClientList) = 2
        /\ StoredParameter(ClientList[1]) \notin {WildCard, RequestedParameter(c)}
        /\ StoredParameter(ClientList[2]) = RequestedParameter(c)

\* C21: the matcher only inspects: whatever the request and the list, and
\* whether it approves or refuses, the step on which it runs and returns leaves
\* the list, the stored parameter of every client and the guard of every client
\* as they were.
C21_MatcherOnlyInspects ==
    [][\A c \in Clients :
          (apc[c] \in {"callback", "matching"} /\ apc'[c] # apc[c]) =>
              /\ flink' = flink /\ blink' = blink
              /\ client_data' = client_data
              /\ rundown' = rundown]_vars

\* C21 witness: the matcher refused a request on a list of two clients, which
\* are still linked with their guards untouched.
C21_Witness ==
    \E c \in Clients :
        /\ hist[c].matcher_result = "EBPF_ACCESS_DENIED" /\ ~InList(c)
        /\ Len(ClientList) = 2 /\ ClientList = linkOrder
        /\ \A k \in SeqToSet(ClientList) : rundown[k] = InitRundown

\* C22: the steps of a detach come in one order.  The detach callback is
\* invoked once, while the client is still linked; the client is removed from
\* the list after the callback and before its work item is queued; and the
\* drain of its guard starts only in that work item.
C22_DetachOrder ==
    \A c \in Clients :
        /\ hist[c].detach_callbacks = (IF dpc[c] = "idle" THEN 0 ELSE 1)
        /\ dpc[c] \in {"called_back", "removing"} =>
              /\ InList(c)
              /\ work_item[c] = "allocated" /\ wpc[c] = "none"
        /\ dpc[c] = "unlinked" =>
              /\ ~InList(c)
              /\ work_item[c] = "allocated" /\ wpc[c] = "none"
        /\ wpc[c] # "none" => (dpc[c] = "pending" /\ ~InList(c))
        /\ rundown[c].active => wpc[c] \in {"waiting", "drained", "completed", "cleaned"}
        /\ wpc[c] \in {"none", "queued"} => ~rundown[c].active

\* C22 witness: the detach callback of a client has run and the client is
\* still linked, behind an earlier client whose drain has started.
C22_Witness ==
    \E c, k \in Clients :
        /\ dpc[c] = "called_back" /\ hist[c].detach_callbacks = 1 /\ InList(c)
        /\ wpc[k] = "waiting" /\ rundown[k].active

InFlight(c) == {i \in Invokers : ipc[i] \in {"invoking", "leaving"} /\ iclient[i] = c}

\* C24: on the invocation path a failed enter_rundown is followed by neither
\* the entry point nor a release, a successful one by one leave_rundown after
\* the entry point returned, so that the live-reference count of every guard
\* equals the number of invocations of its client in flight and is never
\* negative.
C24_CountIsInvocationsInFlight ==
    \A c \in Clients :
        /\ rundown[c].count = Cardinality(InFlight(c))
        /\ rundown[c].count >= 0
        /\ \A i \in Invokers : (iheld[i] /\ iclient[i] = c) <=> i \in InFlight(c)

\* The clients that were linked and not yet unlinked, earliest attach first.
StillLinked == SelectSeq(linkOrder, NotUnlinked)

\* C25: ebpf_extension_hook_get_attached_client returns the first entry of the
\* list, which is the earliest-attached client still linked, and NULL iff the
\* list is empty; it leaves the list as it is and takes no reference on the
\* guard of the client it returns.
C25_GetAttachedClient ==
    [][\A i \in Invokers :
          (ipc[i] = "reading" /\ ipc'[i] # "reading") =>
              /\ iclient'[i] = (IF ClientList = <<>> THEN NULL ELSE ClientList[1])
              /\ iclient'[i] = (IF StillLinked = <<>> THEN NULL ELSE StillLinked[1])
              /\ flink' = flink /\ blink' = blink
              /\ rundown' = rundown /\ iheld'[i] = iheld[i]]_vars

\* C25 witness: the client attached first has been unlinked and the thread was
\* handed the second one, with no reference taken.
C25_Witness ==
    \E i \in Invokers :
        /\ ipc[i] = "candidate" /\ ~iheld[i]
        /\ Len(linkOrder) = 2 /\ linkOrder[1] \in Unlinked
        /\ iclient[i] = linkOrder[2] /\ rundown[linkOrder[2]].count = 0

\* s is the beginning of t.
IsPrefix(s, t) == Len(s) <= Len(t) /\ s = SubSeq(t, 1, Len(s))

\* C26: with no attach or detach running, the walk with
\* ebpf_extension_hook_get_next_attached_client from NULL is handed the linked
\* clients in attach order, each once, and NULL only after the last of them;
\* called with NULL it returns what ebpf_extension_hook_get_attached_client returns.
C26_IterationInAttachOrder ==
    /\ [](ClientList = linkOrder /\ \A i \in Invokers : IsPrefix(visited[i], ClientList))
    /\ [][\A i \in Invokers :
             (ipc[i] = "reading_next" /\ ipc'[i] # "reading_next") =>
                 /\ iclient[i] = NULL => iclient'[i] = first_client
                 /\ iclient'[i] # NULL =>
                       /\ IF iclient[i] = NULL
                          THEN visited'[i] = SubSeq(ClientList, 1, 1)
                          ELSE /\ Len(visited[i]) < Len(ClientList)
                               /\ visited'[i] = SubSeq(ClientList, 1, Len(visited[i]) + 1)
                       /\ iclient'[i] = visited'[i][Len(visited'[i])]
                 /\ (iclient'[i] = NULL /\ iclient[i] # NULL) => visited[i] = ClientList
                 /\ (iclient'[i] = NULL /\ iclient[i] = NULL) => ClientList = <<>>]_vars

\* C26 witness: a walk over three clients has been handed all of them and then NULL.
C26_Witness ==
    \E i \in Invokers :
        /\ Len(ClientList) = 3 /\ visited[i] = ClientList
        /\ ipc[i] = "idle" /\ iclient[i] = NULL

\* C29: under concurrent detaches ebpf_extension_hook_get_next_attached_client,
\* called with NULL or with a client it handed out before, returns NULL or a
\* client that is in the list while the shared lock is held.
C29_NextIsLinked ==
    [][\A i \in Invokers :
          (ipc[i] = "reading_next" /\ ipc'[i] # "reading_next") =>
              (iclient'[i] = NULL \/ InList(iclient'[i]))]_vars

\* C27: the detach handler called with a NULL handle returns
\* STATUS_INVALID_PARAMETER without dereferencing the handle; nothing else of
\* the provider or its clients is touched by the call.
C27_NullDetachRejected ==
    /\ [](provider.null_detach \in {"none", "STATUS_INVALID_PARAMETER"})
    /\ [][provider'.null_detach # provider.null_detach =>
             UNCHANGED <<lock, listVars, record, work_item, rundown, attachVars,
                         detachVars, invokeVars, hist>>]_vars

\* C28: in every interleaving of the invocation path (get the attached client,
\* enter_rundown, invoke, leave_rundown) with detach, detach completion and the
\* release of the record, no step of an invoking thread reads or writes the
\* record of a client that has been freed.
C28_NoUseAfterFree ==
    [][\A i \in Invokers :
          (ipc[i] \in {"candidate", "invoking", "leaving"} /\ ipc'[i] # ipc[i]) =>
              record[iclient[i]] # "freed"]_vars

\* The linked clients whose stored data pointer is NULL.
NullDataClients == {k \in SeqToSet(ClientList) : client_data[k] = <<>>}

\* C30: while a client whose stored data pointer is NULL is linked, the matcher
\* treats it as holding the wildcard: every request for an exact parameter,
\* whatever its value, is refused with access-denied.
C30_NullDataIsWildCard ==
    \A c \in Clients :
        ( /\ hist[c].matcher_result # "none" /\ ~InList(c)
          /\ RequestedParameter(c) # WildCard
          /\ NullDataClients # {} ) =>
            hist[c].matcher_result = "EBPF_ACCESS_DENIED"

\* C30 witness: an exact request was refused on a list whose only client that
\* could refuse it is one with a NULL data pointer, behind a client that stores
\* another exact parameter.
C30_Witness ==
    \E c \in Clients :
        /\ hist[c].matcher_result = "EBPF_ACCESS_DENIED" /\ ~InList(c)
        /\ RequestedParameter(c) # WildCard
        /\ Len(ClientList) = 2
        /\ client_data[ClientList[1]] \notin {<<>>, WildCard, RequestedParameter(c)}
        /\ client_data[ClientList[2]] = <<>>

\* ----------------------------------------------- every user of the lock
\* The handlers and the hook's threads, the threads walking the list with
\* ebpf_extension_hook_get_next_attached_client as well as taking its first
\* entry, in any interleaving.
LockNext ==
    \/ Next
    \/ \E i \in Invokers : GetNextLock(i)
    \/ \E i \in Invokers : GetNext(i)

LockSpec == Init /\ [][LockNext]_vars

\* Threads inside get_attached_client or get_next_attached_client, between the
\* acquisition of the shared lock and its release.
LockReaders == {i \in Invokers : ipc[i] \in {"reading", "reading_next"}}

\* A step that ends a critical section of the lock.
LockRelease ==
    \/ \E c \in Clients, answer \in CallbackAnswers : MatcherCheck(c, answer)
    \/ \E c \in Clients : InsertTail(c)
    \/ \E c \in Clients : DetachRemove(c)
    \/ \E i \in Invokers : GetClient(i)
    \/ \E i \in Invokers : GetNext(i)

WaitReturned(c) == wpc[c] \in {"drained", "completed", "cleaned"}

\* C32: the rundown_occurred flag of each client is monotonic and implies
\* quiescence: it is false from the initialisation of the guard until the
\* rundown wait has returned, it becomes true only on the step on which the wait
\* returns, so at most once, it is never reset, and whenever it is true the
\* client is not in the list and its live-reference count is zero.
C32_RundownOccurredQuiescent ==
    /\ [](\A c \in Clients :
            rundown[c].rundown_occurred =>
                /\ WaitReturned(c)
                /\ ~InList(c)
                /\ rundown[c].count = 0)
    /\ [][\A c \in Clients :
             /\ rundown[c].rundown_occurred => rundown'[c].rundown_occurred
             /\ (~rundown[c].rundown_occurred /\ rundown'[c].rundown_occurred) =>
                    (wpc[c] = "waiting" /\ wpc'[c] = "drained")
             /\ (apc[c] = "idle" /\ apc'[c] = "callback") =>
                    ~rundown'[c].rundown_occurred]_vars

\* C32 witness: the flag of a client is set and its record still exists, a
\* thread that was handed the client before the detach still holds the pointer,
\* and another client is in the list.
C32_Witness ==
    \E c \in Clients, i \in Invokers :
        /\ rundown[c].rundown_occurred /\ record[c] = "allocated"
        /\ iclient[i] = c /\ ipc[i] = "candidate"
        /\ ~IsListEmpty

====
